---- MODULE Spec2Model ----
(***************************************************************************)
(* Model of image_converter.py: the RGB888 -> RGB565 pixel packer, the     *)
(* derivation of the C identifier from a file name, the generation of the  *)
(* C header text, and the directory walk of ImageConverter with its tally  *)
(* and the exit code of main.                                              *)
(*                                                                         *)
(* Text is modelled as sequences of one-character strings, so that         *)
(* str.replace, str.lower, str.upper, Path.suffix, Path.stem,              *)
(* Path.with_suffix and the "04X" format are computed, not assumed.        *)
(***************************************************************************)
EXTENDS Integers, Sequences, FiniteSets, TLC

VARIABLES
    numpyMode,    \* scalar promotion rule of the installed numpy: "legacy" | "nep50"
    pc,           \* position of the operation under way
    pix,          \* packer: the <<r, g, b>> read from img_array[y, x]
    rgb565,       \* packer: value returned by rgb888_to_rgb565 (0 before the call)
    fname,        \* Path(image_path).name
    var_name,     \* identifier: var_name after line 58 (<<>> before)
    var_name2,    \* identifier: the derivation applied to var_name (<<>> before)
    img,          \* generator: what Image.open gives for the file
    artifact,     \* generator: the value returned by image_to_c_array
    srcExists,    \* whether args.source_dir exists
    outState,     \* output root at the start: "absent", "exists" or "unavailable"
    tree,         \* the files under the source root
    fate,         \* per file: "ok", "corrupt" (Image.open raises), "ioerror" (open raises)
    verbose,      \* args.verbose
    fsDirs,       \* directories existing at and under the output root
    fsFiles,      \* files under the output root, as {[path, content]}
    st,           \* per file: its state in the current run
    cur,          \* the file convert_image_file is working on
    c_content,    \* the local c_content of convert_image_file
    walkStack,    \* os.walk: directories still to be yielded, in order
    pending,      \* the entries of the yielded `files` not iterated yet
    converted_count,
    error_count,
    tally,        \* the pair returned by scan_and_convert
    exitCode,     \* the exit code of the process
    runs,         \* number of times main was started
    prevFiles,    \* fsFiles as the previous run left it
    prevTally     \* tally of the previous run

pureVars == <<pix, rgb565, fname, var_name, var_name2, img, artifact>>
envVars == <<srcExists, outState, tree, fate>>
runVars == <<verbose, st, cur, c_content, walkStack, pending, converted_count,
             error_count, tally, exitCode>>
histVars == <<runs, prevFiles, prevTally>>
treeVars == <<envVars, runVars, fsDirs, fsFiles, histVars>>
vars == <<numpyMode, pc, pureVars, treeVars>>

NumpyModes == {"legacy", "nep50"}

(***************************************************************************)
(* Bounds of the model.                                                    *)
(***************************************************************************)
MaxStemLen == 3
MaxWidth == 2
MaxHeight == 2
MaxRuns == 2

(***************************************************************************)
(* Characters and strings.                                                 *)
(***************************************************************************)
UpperCase == <<"A","B","C","D","E","F","G","H","I","J","K","L","M",
               "N","O","P","Q","R","S","T","U","V","W","X","Y","Z">>
LowerCase == <<"a","b","c","d","e","f","g","h","i","j","k","l","m",
               "n","o","p","q","r","s","t","u","v","w","x","y","z">>

Range(s) == {s[i] : i \in DOMAIN s}

\* str.isalpha on one character (ASCII letters; the model has no others)
isalpha(c) == c \in Range(UpperCase) \cup Range(LowerCase)

lowerChar(c) ==
    IF c \in Range(UpperCase)
    THEN LowerCase[CHOOSE i \in DOMAIN UpperCase : UpperCase[i] = c]
    ELSE c

upperChar(c) ==
    IF c \in Range(LowerCase)
    THEN UpperCase[CHOOSE i \in DOMAIN LowerCase : LowerCase[i] = c]
    ELSE c

\* str.lower, str.upper
lower(s) == [i \in 1..Len(s) |-> lowerChar(s[i])]
upper(s) == [i \in 1..Len(s) |-> upperChar(s[i])]

\* str.replace(old, new) for one-character old and new
replace(s, old, new) == [i \in 1..Len(s) |-> IF s[i] = old THEN new ELSE s[i]]

\* str.rfind('.') as a 1-based index, 0 when there is no dot
rfindDot(s) ==
    IF \E i \in 1..Len(s) : s[i] = "."
    THEN CHOOSE i \in 1..Len(s) : s[i] = "." /\ \A j \in (i+1)..Len(s) : s[j] # "."
    ELSE 0

\* PurePath.suffix of a file name: from the last dot, unless that dot is the
\* first or the last character of the name
suffix(name) ==
    LET i == rfindDot(name)
    IN  IF 1 < i /\ i < Len(name) THEN SubSeq(name, i, Len(name)) ELSE <<>>

\* PurePath.stem of a file name
stem(name) ==
    LET i == rfindDot(name)
    IN  IF 1 < i /\ i < Len(name) THEN SubSeq(name, 1, i - 1) ELSE name

\* PurePath.with_suffix applied to the last component of a path
with_suffix(name, suf) == SubSeq(name, 1, Len(name) - Len(suffix(name))) \o suf

SUPPORTED_FORMATS ==
    { <<".","p","n","g">>, <<".","j","p","g">>, <<".","j","p","e","g">>,
      <<".","b","m","p">>, <<".","g","i","f">>, <<".","t","i","f","f">> }

\* Mutant: the suffix is compared as written, without lower().
is_supported_as_written(name) == suffix(name) \in SUPPORTED_FORMATS

\* the test of line 158
is_supported(name) == lower(suffix(name)) \in SUPPORTED_FORMATS

(***************************************************************************)
(* Integer arithmetic of the packer.                                       *)
(***************************************************************************)
RECURSIVE BitAnd(_, _)
BitAnd(a, b) ==
    IF a = 0 \/ b = 0 THEN 0
    ELSE (a % 2) * (b % 2) + 2 * BitAnd(a \div 2, b \div 2)

RECURSIVE BitOr(_, _)
BitOr(a, b) ==
    IF a = 0 THEN b
    ELSE IF b = 0 THEN a
    ELSE (IF a % 2 = 1 \/ b % 2 = 1 THEN 1 ELSE 0) + 2 * BitOr(a \div 2, b \div 2)

RECURSIVE Pow2(_)
Pow2(n) == IF n = 0 THEN 1 ELSE 2 * Pow2(n - 1)

\* x << n and x >> n on a 64-bit integer (no overflow for 8-bit x and n <= 8)
Shl64(x, n) == x * Pow2(n)
Shr(x, n) == x \div Pow2(n)

\* x << n on a numpy uint8: the result keeps 8 bits, and a shift count of
\* the full width or more yields 0
Shl8(x, n) == IF n >= 8 THEN 0 ELSE (x * Pow2(n)) % 256

\* ImageConverter.rgb888_to_rgb565 on the numpy.uint8 scalars of
\* img_array[y, x], under the promotion rule np of the installed numpy.  The
\* operands 0xF8, 0xFC, 8 and 3 are Python ints: with legacy (value-based)
\* promotion a uint8 scalar combined with a Python int gives int64, with
\* NEP 50 promotion (numpy 2) the result stays uint8.
rgb888_to_rgb565(np, r, g, b) ==
    IF np = "legacy"
    THEN BitOr(BitOr(Shl64(BitAnd(r, 248), 8), Shl64(BitAnd(g, 252), 3)), Shr(b, 3))
    ELSE BitOr(BitOr(Shl8(BitAnd(r, 248), 8), Shl8(BitAnd(g, 252), 3)), Shr(b, 3))

(***************************************************************************)
(* Identifier derivation, lines 54-58.                                     *)
(***************************************************************************)
img_prefix == <<"i","m","g","_">>

\* Mutant: only hyphens are replaced.
VarNameHyphenOnly(s) ==
    LET v == replace(s, "-", "_")
    IN  IF ~isalpha(v[1]) /\ v[1] # "_" THEN img_prefix \o v ELSE v

\* Mutant: the prefix is a digit-leading marker.
VarNameDigitPrefix(s) ==
    LET v == replace(replace(s, "-", "_"), " ", "_")
    IN  IF ~isalpha(v[1]) /\ v[1] # "_" THEN <<"0","_">> \o v ELSE v

\* var_name of a non-empty stem s (var_name[0] of the empty string raises)
VarName(s) ==
    LET v == replace(replace(s, "-", "_"), " ", "_")
    IN  IF ~isalpha(v[1]) /\ v[1] # "_" THEN img_prefix \o v ELSE v

(***************************************************************************)
(* Header generation, image_to_c_array lines 40-112.                       *)
(***************************************************************************)
HexDigit == <<"0","1","2","3","4","5","6","7","8","9","A","B","C","D","E","F">>

RECURSIVE HexDigits(_)
HexDigits(n) ==
    IF n < 16 THEN <<HexDigit[n + 1]>>
    ELSE HexDigits(n \div 16) \o <<HexDigit[(n % 16) + 1]>>

RECURSIVE ZeroPad(_, _)
ZeroPad(s, width) == IF Len(s) >= width THEN s ELSE ZeroPad(<<"0">> \o s, width)

\* f"0x{rgb565:04X}", line 83
FormatEntry(v) == <<"0","x">> \o ZeroPad(HexDigits(v), 4)

\* ", ".join(row_pixels)
RECURSIVE Join(_)
Join(entries) ==
    IF Len(entries) = 0 THEN <<>>
    ELSE IF Len(entries) = 1 THEN entries[1]
    ELSE entries[1] \o <<",", " ">> \o Join(Tail(entries))

Indent == <<" ", " ", " ", " ">>

\* row_pixels of row y (0-based), lines 79-83
RowPixels(np, image, y) ==
    [k \in 1..image.width |->
        LET p == image.pixels[y][k - 1]
        IN  FormatEntry(rgb888_to_rgb565(np, p[1], p[2], p[3]))]

\* the line appended for row y, lines 85-89
RowLine(np, image, y) ==
    IF y < image.height - 1
    THEN Indent \o Join(RowPixels(np, image, y)) \o <<",">>
    ELSE Indent \o Join(RowPixels(np, image, y))

Corrupt == [kind |-> "corrupt"]
NoArtifact == [kind |-> "None"]

\* The text returned by image_to_c_array for a file named name that decodes
\* to image, section by section; None when Image.open (or anything after
\* it) raises.  Decimal numbers are kept as integers.
image_to_c_array(np, name, image) ==
    IF image.kind = "corrupt" \/ stem(name) = <<>> THEN NoArtifact
    ELSE
    LET v == VarName(stem(name))
    IN  [ kind          |-> "header",
          generatedFrom |-> name,
          imageSize     |-> <<image.width, image.height>>,
          defineWidth   |-> [name |-> upper(v) \o <<"_","W","I","D","T","H">>,
                             value |-> image.width],
          defineHeight  |-> [name |-> upper(v) \o <<"_","H","E","I","G","H","T">>,
                             value |-> image.height],
          arrayName     |-> v \o <<"_","d","a","t","a">>,
          arrayLen      |-> image.width * image.height,
          rows          |-> [r \in 1..image.height |-> RowLine(np, image, r - 1)],
          typeName      |-> v \o <<"_","t">>,
          instanceName  |-> v ]

(***************************************************************************)
(* Inputs of the pure operations.                                          *)
(***************************************************************************)
BoundedSeqs(S, n) == UNION {[1..k -> S] : k \in 1..n}

\* 8-bit triples: one channel over its whole range, the others at an end
ChannelEnds == {0, 255}
InputTriples ==
    { <<r, g, b>> : r \in 0..255, g \in ChannelEnds, b \in ChannelEnds } \cup
    { <<r, g, b>> : r \in ChannelEnds, g \in 0..255, b \in ChannelEnds } \cup
    { <<r, g, b>> : r \in ChannelEnds, g \in ChannelEnds, b \in 0..255 }

StemAlphabet == {"a", "Z", "1", "-", " ", "_", "."}
ExampleStems ==
    { <<"m","y","-","i","c","o","n">>, <<"1","i","c","o","n">>, <<"i","c","o","n">> }
InputStems == BoundedSeqs(StemAlphabet, MaxStemLen) \cup ExampleStems
InputExtensions == { <<".","p","n","g">>, <<".","J","P","G">>, <<".","t","x","t">> }
InputNames == { s \o e : s \in InputStems, e \in InputExtensions }

SamplePixels == { <<255, 0, 0>>, <<18, 52, 86>> }
InputImages ==
    UNION { { [kind |-> "image", width |-> w, height |-> h, pixels |-> p] :
                p \in [0..(h - 1) -> [0..(w - 1) -> SamplePixels]] } :
            w \in 1..MaxWidth, h \in 1..MaxHeight }
GenNames == { <<"m","y","-","i","c","o","n",".","p","n","g">>, <<"1",".","b","m","p">> }

NoFile == "NoFile"
NoTally == <<>>
NoExit == "running"

TreeIdle ==
    /\ srcExists = FALSE /\ outState = "absent" /\ tree = {} /\ fate = <<>>
    /\ verbose = FALSE /\ fsDirs = {} /\ fsFiles = {}
    /\ st = <<>> /\ cur = NoFile /\ c_content = NoArtifact
    /\ walkStack = <<>> /\ pending = {}
    /\ converted_count = 0 /\ error_count = 0
    /\ tally = NoTally /\ exitCode = NoExit
    /\ runs = 0 /\ prevFiles = {} /\ prevTally = NoTally

PureIdle ==
    /\ pix = <<0, 0, 0>>
    /\ rgb565 = 0
    /\ fname = <<>>
    /\ var_name = <<>>
    /\ var_name2 = <<>>
    /\ img = Corrupt
    /\ artifact = NoArtifact

(***************************************************************************)
(* The packer on one pixel of the decoded grid (lines 81-82).              *)
(***************************************************************************)
PackInit ==
    /\ numpyMode \in NumpyModes
    /\ pc = "pack"
    /\ pix \in InputTriples
    /\ rgb565 = 0
    /\ fname = <<>> /\ var_name = <<>> /\ var_name2 = <<>>
    /\ img = Corrupt /\ artifact = NoArtifact
    /\ TreeIdle

PackPixel ==
    /\ pc = "pack"
    /\ rgb565' = rgb888_to_rgb565(numpyMode, pix[1], pix[2], pix[3])
    /\ pc' = "packed"
    /\ UNCHANGED <<numpyMode, pix, fname, var_name, var_name2, img, artifact, treeVars>>

PackNext == PackPixel
PackSpec == PackInit /\ [][PackNext]_vars

(***************************************************************************)
(* The identifier derivation on the stem of a supported file.              *)
(***************************************************************************)
IdentInit ==
    /\ numpyMode \in NumpyModes
    /\ pc = "ident"
    /\ fname \in InputNames
    /\ var_name = <<>> /\ var_name2 = <<>>
    /\ pix = <<0, 0, 0>> /\ rgb565 = 0
    /\ img = Corrupt /\ artifact = NoArtifact
    /\ TreeIdle

\* lines 55-58 on Path(image_path).stem
Derive ==
    /\ pc = "ident"
    /\ is_supported(fname)
    /\ var_name' = VarName(stem(fname))
    /\ pc' = "derived"
    /\ UNCHANGED <<numpyMode, pix, rgb565, fname, var_name2, img, artifact, treeVars>>

\* lines 55-58 applied to their own result
DeriveAgain ==
    /\ pc = "derived"
    /\ var_name2' = VarName(var_name)
    /\ pc' = "rederived"
    /\ UNCHANGED <<numpyMode, pix, rgb565, fname, var_name, img, artifact, treeVars>>

IdentNext == Derive \/ DeriveAgain
IdentSpec == IdentInit /\ [][IdentNext]_vars

(***************************************************************************)
(* The generator on one decoded image.                                     *)
(***************************************************************************)
GenInit ==
    /\ numpyMode \in NumpyModes
    /\ pc = "gen"
    /\ fname \in GenNames
    /\ img \in InputImages
    /\ artifact = NoArtifact
    /\ pix = <<0, 0, 0>> /\ rgb565 = 0
    /\ var_name = <<>> /\ var_name2 = <<>>
    /\ TreeIdle

Generate ==
    /\ pc = "gen"
    /\ artifact' = image_to_c_array(numpyMode, fname, img)
    /\ pc' = "generated"
    /\ UNCHANGED <<numpyMode, pix, rgb565, fname, var_name, var_name2, img, treeVars>>

GenNext == Generate
GenSpec == GenInit /\ [][GenNext]_vars

(***************************************************************************)
(* Claims about the pure operations.                                       *)
(***************************************************************************)
\* the 16-bit value the contract gives for <<r, g, b>>
Packed565(p) == (p[1] \div 8) * 2048 + (p[2] \div 4) * 32 + (p[3] \div 8)

\* C1: for every 8-bit triple read from the decoded grid the packer returns
\* a value in 0..65535 equal to (r div 8)*2048 + (g div 4)*32 + (b div 8);
\* in particular pure red, green, blue, white and black give 0xF800,
\* 0x07E0, 0x001F, 0xFFFF and 0x0000.
C1_PackerBitExact ==
    pc = "packed" =>
        /\ rgb565 \in 0..65535
        /\ rgb565 = Packed565(pix)
        /\ (pix = <<255, 0, 0>> => rgb565 = 63488)
        /\ (pix = <<0, 255, 0>> => rgb565 = 2016)
        /\ (pix = <<0, 0, 255>> => rgb565 = 31)
        /\ (pix = <<255, 255, 255>> => rgb565 = 65535)
        /\ (pix = <<0, 0, 0>> => rgb565 = 0)

IsString(s) == s \in Seq(StemAlphabet \cup Range(UpperCase) \cup Range(LowerCase))

\* C8: the derivation returns a string for every stem, applying it to its
\* own result changes nothing, and "my-icon" gives "my_icon", "1icon" gives
\* "img_1icon", "icon" gives "icon".
C8_DeriveIdempotentTotal ==
    /\ (pc = "ident" => stem(fname) # <<>>)
    /\ (pc = "ident" /\ is_supported(fname) => ENABLED Derive)
    /\ (pc \in {"derived", "rederived"} => IsString(var_name) /\ var_name # <<>>)
    /\ (pc = "rederived" => var_name2 = var_name)
    /\ (pc = "derived" /\ stem(fname) = <<"m","y","-","i","c","o","n">>
            => var_name = <<"m","y","_","i","c","o","n">>)
    /\ (pc = "derived" /\ stem(fname) = <<"1","i","c","o","n">>
            => var_name = <<"i","m","g","_","1","i","c","o","n">>)
    /\ (pc = "derived" /\ stem(fname) = <<"i","c","o","n">>
            => var_name = <<"i","c","o","n">>)

\* a stem whose first character is replaced or invalid has been derived and
\* derived again
C8_Witness ==
    /\ pc = "rederived"
    /\ stem(fname) = <<"1", "-", " ">>
    /\ var_name2 = <<"i","m","g","_","1","_","_">>

Letters == Range(UpperCase) \cup Range(LowerCase)
Substituted(c) == IF c = "-" \/ c = " " THEN "_" ELSE c

RECURSIVE HexValue(_)
HexValue(ds) ==
    IF ds = <<>> THEN 0
    ELSE 16 * HexValue(SubSeq(ds, 1, Len(ds) - 1))
         + (CHOOSE d \in 0..15 : HexDigit[d + 1] = ds[Len(ds)])

\* the shape of the generated constants and rows: dimensions, array length,
\* h lines of w entries "0x" + 4 uppercase hexadecimal digits separated by
\* ", ", a trailing comma on every row line but the last
ArtifactShape(a, image) ==
    LET w == image.width
        h == image.height
    IN  /\ a.kind = "header"
        /\ a.defineWidth.value = w
        /\ a.defineHeight.value = h
        /\ a.arrayName = VarName(stem(a.generatedFrom)) \o <<"_","d","a","t","a">>
        /\ a.arrayLen = w * h
        /\ Len(a.rows) = h
        /\ \A y \in 0..(h - 1) :
              LET line == a.rows[y + 1]
              IN  /\ Len(line) = 4 + 6 * w + 2 * (w - 1) + (IF y < h - 1 THEN 1 ELSE 0)
                  /\ SubSeq(line, 1, 4) = <<" ", " ", " ", " ">>
                  /\ (y < h - 1 => line[Len(line)] = ",")
                  /\ \A x \in 0..(w - 1) :
                        LET at == 4 + 8 * x
                        IN  /\ line[at + 1] = "0" /\ line[at + 2] = "x"
                            /\ \A k \in 3..6 : line[at + k] \in Range(HexDigit)
                            /\ (x < w - 1 =>
                                    line[at + 7] = "," /\ line[at + 8] = " ")

\* entry y*w + x of the initializer is the contract's packed value of pixel (x, y)
ArtifactValues(a, image) ==
    \A y \in 0..(image.height - 1) : \A x \in 0..(image.width - 1) :
        HexValue(SubSeq(a.rows[y + 1], 4 + 8 * x + 3, 4 + 8 * x + 6))
            = Packed565(image.pixels[y][x])

\* C10: for every decoded image of width w >= 1 and height h >= 1 the
\* artifact declares width w, height h and the array <identifier>_data of
\* length w*h, and its initializer is h lines of w entries in row-major
\* order, entry y*w + x being the packed value of pixel (x, y) written as 0x
\* and 4 uppercase hexadecimal digits, with a trailing comma on every row
\* line except the last.
C10_ArtifactPixelArray ==
    pc = "generated" => ArtifactShape(artifact, img) /\ ArtifactValues(artifact, img)

\* The part of C10 that does not depend on the packer's values.
ArtifactShapeHolds == pc = "generated" => ArtifactShape(artifact, img)

\* The packer's contract under legacy promotion alone.
PackerBitExactLegacy ==
    pc = "packed" /\ numpyMode = "legacy" => rgb565 = Packed565(pix)

\* The generated values under legacy promotion alone.
ArtifactValuesLegacy ==
    pc = "generated" /\ numpyMode = "legacy" => ArtifactValues(artifact, img)

(***************************************************************************)
(* The source tree.  A file is named by an id; its directory (relative to  *)
(* the source root), its name and what Image.open gives are fixed.         *)
(***************************************************************************)
Files == {"F1", "F2", "F3", "F4"}

FileDir(f) ==
    CASE f = "F1" -> <<>>
      [] f = "F2" -> <<>>
      [] f = "F3" -> <<"icons", "x">>
      [] f = "F4" -> <<"logos">>

FileName(f) ==
    CASE f = "F1" -> <<"a",".","p","n","g">>
      [] f = "F2" -> <<"a",".","J","P","G">>
      [] f = "F3" -> <<"a",".","p","n","g">>
      [] f = "F4" -> <<"s","c","a","n",".","t","i","f">>

FilePixels(f) ==
    CASE f = "F1" -> <<255, 0, 0>>
      [] f = "F2" -> <<0, 255, 0>>
      [] f = "F3" -> <<18, 52, 86>>
      [] f = "F4" -> <<0, 0, 0>>

\* the image in the file, when the file is an image
FileImage(f) ==
    [kind |-> "image", width |-> 1, height |-> 1,
     pixels |-> (0 :> (0 :> FilePixels(f)))]

\* what Image.open(...).convert('RGB') and np.array give for the file
Decode(f) == IF fate[f] = "corrupt" THEN Corrupt ELSE FileImage(f)

\* line 158 for each file of the tree
Supported == [f \in Files |-> is_supported(FileName(f))]

\* what image_to_c_array returns for each file that decodes
Header ==
    [np \in NumpyModes |->
        [f \in Files |-> image_to_c_array(np, FileName(f), FileImage(f))]]

Fates == {"ok", "corrupt", "ioerror"}

OutRoot == <<"build", "out">>
Prefixes(path) == {SubSeq(path, 1, k) : k \in 0..Len(path)}

\* the directories of the source tree, the root included
TreeDirs == {<<>>} \cup UNION {Prefixes(FileDir(f)) : f \in tree}
Subdirs(d) ==
    {e \in TreeDirs : Len(e) = Len(d) + 1 /\ SubSeq(e, 1, Len(d)) = d}
FilesIn(d) == {f \in tree : FileDir(f) = d}

\* the orders in which a listing can enumerate a set
Orders(S) == {p \in [1..Cardinality(S) -> S] : Range(p) = S}

\* output_file of line 125: output_dir / relative_path.with_suffix('.h')
output_file(f) ==
    [dir |-> OutRoot \o FileDir(f), name |-> with_suffix(FileName(f), <<".","h">>)]

OutputFile == [f \in Files |-> output_file(f)]

\* Path.mkdir(parents=True, exist_ok=True)
MkdirParents(dirs, path) == dirs \cup (Prefixes(path) \ {<<>>})

\* open(output_file, 'w') and f.write(c_content)
WriteFile(files, path, content) ==
    {e \in files : e.path # path} \cup {[path |-> path, content |-> content]}

Terminal == {"DecodeFailed", "WriteFailed", "Written"}

(***************************************************************************)
(* main and ImageConverter.                                                *)
(***************************************************************************)
Init ==
    /\ numpyMode \in NumpyModes
    /\ pc = "main"
    /\ PureIdle
    /\ srcExists \in BOOLEAN
    /\ outState \in {"absent", "exists", "unavailable"}
    /\ tree \in (IF srcExists THEN SUBSET Files ELSE {{}})
    /\ fate \in [tree -> Fates]
    /\ \A f \in tree : ~Supported[f] => fate[f] = "ok"
    /\ verbose \in BOOLEAN
    /\ fsDirs = (IF outState = "exists" THEN Prefixes(OutRoot) \ {<<>>} ELSE {})
    /\ fsFiles = {}
    /\ st = [f \in tree |-> "Unvisited"]
    /\ cur = NoFile
    /\ c_content = NoArtifact
    /\ walkStack = <<>>
    /\ pending = {}
    /\ converted_count = 0
    /\ error_count = 0
    /\ tally = NoTally
    /\ exitCode = NoExit
    /\ runs = 1
    /\ prevFiles = {}
    /\ prevTally = NoTally

fixed == <<numpyMode, pureVars, envVars, verbose, histVars>>

\* Mutant: the output root is created before the source root is looked at.
SetupSourceNotFoundAfterMkdir ==
    /\ pc = "main"
    /\ ~srcExists
    /\ fsDirs' = (IF outState = "unavailable" THEN fsDirs
                  ELSE MkdirParents(fsDirs, OutRoot))
    /\ exitCode' = 1
    /\ pc' = "exited"
    /\ UNCHANGED <<fixed, fsFiles, st, cur, c_content, walkStack, pending,
                   converted_count, error_count, tally>>

\* __init__ raises FileNotFoundError (line 31); main prints it and exits 1
SetupSourceNotFound ==
    /\ pc = "main"
    /\ ~srcExists
    /\ exitCode' = 1
    /\ pc' = "exited"
    /\ UNCHANGED <<fixed, fsDirs, fsFiles, st, cur, c_content, walkStack, pending,
                   converted_count, error_count, tally>>

\* output_dir.mkdir raises (line 34); main's `except Exception` exits 1
SetupMkdirFails ==
    /\ pc = "main"
    /\ srcExists
    /\ outState = "unavailable"
    /\ exitCode' = 1
    /\ pc' = "exited"
    /\ UNCHANGED <<fixed, fsDirs, fsFiles, st, cur, c_content, walkStack, pending,
                   converted_count, error_count, tally>>

\* __init__ succeeds and scan_and_convert starts: counters 0, os.walk(source_dir)
SetupOk ==
    /\ pc = "main"
    /\ srcExists
    /\ outState # "unavailable"
    /\ fsDirs' = MkdirParents(fsDirs, OutRoot)
    /\ converted_count' = 0
    /\ error_count' = 0
    /\ walkStack' = << <<>> >>
    /\ pending' = {}
    /\ pc' = "walk"
    /\ UNCHANGED <<fixed, fsFiles, st, cur, c_content, tally, exitCode>>

\* os.walk yields the next directory, top-down: its files are iterated
\* before its sub-directories are entered, in the order of the listing
WalkDir ==
    /\ pc = "walk"
    /\ pending = {}
    /\ walkStack # <<>>
    /\ \E order \in Orders(Subdirs(Head(walkStack))) :
          walkStack' = order \o Tail(walkStack)
    /\ pending' = FilesIn(Head(walkStack))
    /\ UNCHANGED <<fixed, fsDirs, fsFiles, st, cur, c_content, converted_count,
                   error_count, tally, exitCode, pc>>

\* `for file in files`, line 158 false: the file is passed over
SkipFile(f) ==
    /\ pc = "walk"
    /\ f \in pending
    /\ ~Supported[f]
    /\ pending' = pending \ {f}
    /\ UNCHANGED <<fixed, fsDirs, fsFiles, st, cur, c_content, walkStack,
                   converted_count, error_count, tally, exitCode, pc>>

\* `for file in files`, line 158 true: convert_image_file is called
Discover(f) ==
    /\ pc = "walk"
    /\ f \in pending
    /\ Supported[f]
    /\ pending' = pending \ {f}
    /\ st' = [st EXCEPT ![f] = "Discovered"]
    /\ cur' = f
    /\ pc' = "convert"
    /\ UNCHANGED <<fixed, fsDirs, fsFiles, c_content, walkStack,
                   converted_count, error_count, tally, exitCode>>

\* image_to_c_array is entered: Image.open(image_path), lines 42-52
StartDecoding ==
    /\ pc = "convert"
    /\ st[cur] = "Discovered"
    /\ st' = [st EXCEPT ![cur] = "Decoding"]
    /\ UNCHANGED <<fixed, fsDirs, fsFiles, cur, c_content, walkStack, pending,
                   converted_count, error_count, tally, exitCode, pc>>

\* Mutant: the exception of the decoder leaves scan_and_convert.
DecodeFailsAborts ==
    /\ pc = "convert"
    /\ st[cur] = "Decoding"
    /\ Decode(cur) = Corrupt
    /\ st' = [st EXCEPT ![cur] = "DecodeFailed"]
    /\ error_count' = error_count + 1
    /\ exitCode' = 1
    /\ cur' = NoFile
    /\ pc' = "exited"
    /\ UNCHANGED <<fixed, fsDirs, fsFiles, c_content, walkStack, pending,
                   converted_count, tally>>

\* the decoder raises: lines 110-112 return None, line 122 returns False,
\* line 165 counts the error and the loop goes on
DecodeFails ==
    /\ pc = "convert"
    /\ st[cur] = "Decoding"
    /\ Decode(cur) = Corrupt
    /\ st' = [st EXCEPT ![cur] = "DecodeFailed"]
    /\ error_count' = error_count + 1
    /\ cur' = NoFile
    /\ pc' = "walk"
    /\ UNCHANGED <<fixed, fsDirs, fsFiles, c_content, walkStack, pending,
                   converted_count, tally, exitCode>>

\* the image is open, in RGB, as a numpy array
DecodeOk ==
    /\ pc = "convert"
    /\ st[cur] = "Decoding"
    /\ Decode(cur) # Corrupt
    /\ st' = [st EXCEPT ![cur] = "Decoded"]
    /\ UNCHANGED <<fixed, fsDirs, fsFiles, cur, c_content, walkStack, pending,
                   converted_count, error_count, tally, exitCode, pc>>

\* the pixel loop, lines 76-91
Pack ==
    /\ pc = "convert"
    /\ st[cur] = "Decoded"
    /\ st' = [st EXCEPT ![cur] = "Packing"]
    /\ UNCHANGED <<fixed, fsDirs, fsFiles, cur, c_content, walkStack, pending,
                   converted_count, error_count, tally, exitCode, pc>>

\* the text is joined and returned to convert_image_file, lines 108 and 120
GenerateContent ==
    /\ pc = "convert"
    /\ st[cur] = "Packing"
    /\ c_content' = Header[numpyMode][cur]
    /\ st' = [st EXCEPT ![cur] = "Generating"]
    /\ UNCHANGED <<fixed, fsDirs, fsFiles, cur, walkStack, pending,
                   converted_count, error_count, tally, exitCode, pc>>

\* c_content is not None: the output path is computed, line 125
StartWriting ==
    /\ pc = "convert"
    /\ st[cur] = "Generating"
    /\ c_content # NoArtifact
    /\ st' = [st EXCEPT ![cur] = "Writing"]
    /\ UNCHANGED <<fixed, fsDirs, fsFiles, cur, c_content, walkStack, pending,
                   converted_count, error_count, tally, exitCode, pc>>

\* open(output_file, 'w') raises after the directories were made: lines
\* 137-139 return False, line 165 counts the error and the loop goes on
WriteFails ==
    /\ pc = "convert"
    /\ st[cur] = "Writing"
    /\ fate[cur] = "ioerror"
    /\ fsDirs' = MkdirParents(fsDirs, OutputFile[cur].dir)
    /\ st' = [st EXCEPT ![cur] = "WriteFailed"]
    /\ error_count' = error_count + 1
    /\ cur' = NoFile
    /\ c_content' = NoArtifact
    /\ pc' = "walk"
    /\ UNCHANGED <<fixed, fsFiles, walkStack, pending, converted_count, tally,
                   exitCode>>

\* lines 128-135 and 163: the directories are made, the header is written,
\* the conversion is counted
WriteOk ==
    /\ pc = "convert"
    /\ st[cur] = "Writing"
    /\ fate[cur] # "ioerror"
    /\ fsDirs' = MkdirParents(fsDirs, OutputFile[cur].dir)
    /\ fsFiles' = WriteFile(fsFiles, OutputFile[cur], c_content)
    /\ st' = [st EXCEPT ![cur] = "Written"]
    /\ converted_count' = converted_count + 1
    /\ cur' = NoFile
    /\ c_content' = NoArtifact
    /\ pc' = "walk"
    /\ UNCHANGED <<fixed, walkStack, pending, error_count, tally, exitCode>>

\* os.walk is exhausted: line 172
Return ==
    /\ pc = "walk"
    /\ pending = {}
    /\ walkStack = <<>>
    /\ tally' = <<converted_count, error_count>>
    /\ pc' = "returned"
    /\ UNCHANGED <<fixed, fsDirs, fsFiles, st, cur, c_content, walkStack, pending,
                   converted_count, error_count, exitCode>>

\* Mutant: errors are reported in the exit code only without --verbose.
ExitCodeUnlessVerbose(errors) == IF errors > 0 /\ ~verbose THEN 1 ELSE 0

\* lines 213-214, and the exit code 0 of a main that returns
ExitCode(errors) == IF errors > 0 THEN 1 ELSE 0

\* main after scan_and_convert returned, line 210
Exit ==
    /\ pc = "returned"
    /\ exitCode' = ExitCode(tally[2])
    /\ pc' = "exited"
    /\ UNCHANGED <<fixed, fsDirs, fsFiles, st, cur, c_content, walkStack, pending,
                   converted_count, error_count, tally>>

\* the program is started again on the same source and output directories
Rerun ==
    /\ pc = "exited"
    /\ runs < MaxRuns
    /\ runs' = runs + 1
    /\ prevFiles' = fsFiles
    /\ prevTally' = tally
    /\ verbose' \in BOOLEAN
    /\ st' = [f \in tree |-> "Unvisited"]
    /\ cur' = NoFile
    /\ c_content' = NoArtifact
    /\ walkStack' = <<>>
    /\ pending' = {}
    /\ converted_count' = 0
    /\ error_count' = 0
    /\ tally' = NoTally
    /\ exitCode' = NoExit
    /\ pc' = "main"
    /\ UNCHANGED <<numpyMode, pureVars, envVars, fsDirs, fsFiles>>

\* the steps of one run of the program
Step ==
    \/ SetupSourceNotFound
    \/ SetupMkdirFails
    \/ SetupOk
    \/ WalkDir
    \/ \E f \in Files : SkipFile(f)
    \/ \E f \in Files : Discover(f)
    \/ StartDecoding
    \/ DecodeFails
    \/ DecodeOk
    \/ Pack
    \/ GenerateContent
    \/ StartWriting
    \/ WriteFails
    \/ WriteOk
    \/ Return
    \/ Exit

Next == Step \/ Rerun

Spec == Init /\ [][Next]_vars

\* The program is one sequential thread: a run that can take a step takes
\* it.  Nothing obliges anyone to start the program again.
FairSpec == Init /\ [][Next]_vars /\ WF_vars(Step)

(***************************************************************************)
(* Claims about the tree conversion.                                       *)
(***************************************************************************)
ImageExtensions ==
    { <<"p","n","g">>, <<"j","p","g">>, <<"j","p","e","g">>,
      <<"b","m","p">>, <<"g","i","f">>, <<"t","i","f","f">> }

\* a file is eligible iff its extension, whatever its case, is an image extension
Eligible(f) ==
    LET n == FileName(f)
    IN  \E e \in ImageExtensions :
            /\ Len(n) > Len(e) + 1
            /\ lower(SubSeq(n, Len(n) - Len(e), Len(n))) = <<".">> \o e

EligibleOfAll == {f \in Files : Eligible(f)}
EligibleFiles == tree \cap EligibleOfAll
FailedFiles == {f \in EligibleFiles : fate[f] # "ok"}

\* the path mirrored from the source: same relative directory, extension .h
MirrorPath(f) ==
    LET n == FileName(f)
        dot == CHOOSE i \in 1..Len(n) :
                   n[i] = "." /\ \A j \in (i + 1)..Len(n) : n[j] # "."
    IN  [dir |-> OutRoot \o FileDir(f), name |-> SubSeq(n, 1, dot) \o <<"h">>]

MirrorPaths == [f \in Files |-> MirrorPath(f)]

ArtifactPaths == {e.path : e \in fsFiles}

\* C2: after a first run on an empty output root in which no file fails,
\* the output tree holds exactly N artifacts, N the number of eligible
\* files, each at the mirrored path of its source, and none elsewhere.
C2_RoundTripStructure ==
    pc = "returned" /\ runs = 1 /\ tally[2] = 0 =>
        /\ ArtifactPaths = {MirrorPaths[f] : f \in EligibleFiles}
        /\ Cardinality(fsFiles) = Cardinality(EligibleFiles)

\* What holds of the output paths: every artifact sits at the mirrored path
\* of a converted file, and every converted file has one there.
OutputPathsMirror ==
    pc = "returned" /\ runs = 1 =>
        ArtifactPaths = {MirrorPaths[f] : f \in {g \in tree : st[g] = "Written"}}

\* C3: the returned pair satisfies converted + errored = number of eligible
\* files and converted = that number minus the files that failed to decode
\* or to write; files of any other extension are counted nowhere; zero
\* eligible files give (0,0), two valid and one corrupt give (2,1).
C3_TallyAccounting ==
    /\ \A f \in tree : st[f] = "Unvisited" \/ f \in EligibleOfAll
    /\ (tally # NoTally =>
            LET n == Cardinality(EligibleFiles)
                failed == Cardinality(FailedFiles)
            IN  /\ tally[1] + tally[2] = n
                /\ tally[1] = n - failed
                /\ tally[2] = failed
                /\ (n = 0 => tally = <<0, 0>>)
                /\ (n = 3 /\ failed = 1 => tally = <<2, 1>>))

\* two valid files, one corrupt file and a file of another extension, in
\* any letter case, have been scanned
C3_Witness ==
    /\ pc = "returned"
    /\ tally = <<2, 1>>
    /\ {"F2", "F4"} \subseteq tree
    /\ \E f \in tree : fate[f] = "corrupt"

Edges ==
    { <<"Unvisited", "Discovered">>, <<"Discovered", "Decoding">>,
      <<"Decoding", "DecodeFailed">>, <<"Decoding", "Decoded">>,
      <<"Decoded", "Packing">>, <<"Packing", "Generating">>,
      <<"Generating", "Writing">>, <<"Writing", "WriteFailed">>,
      <<"Writing", "Written">> }

TerminalOf(f) ==
    CASE fate[f] = "corrupt" -> "DecodeFailed"
      [] fate[f] = "ioerror" -> "WriteFailed"
      [] fate[f] = "ok" -> "Written"

\* C4: within a run every eligible file moves only along Discovered ->
\* Decoding -> {DecodeFailed | Decoded -> Packing -> Generating -> Writing ->
\* {WriteFailed | Written}} and never leaves a terminal state; each failed
\* file is one error and each written file one conversion; a traversal that
\* has started always returns the tally, with every eligible file in its
\* own terminal state whatever happened to the others.
C4_PartialFailurePolicy ==
    /\ [][runs' = runs =>
            \A f \in tree : st'[f] = st[f] \/ <<st[f], st'[f]>> \in Edges]_vars
    /\ [](/\ error_count =
                Cardinality({f \in tree : st[f] \in {"DecodeFailed", "WriteFailed"}})
           /\ converted_count = Cardinality({f \in tree : st[f] = "Written"}))
    /\ [](pc \in {"returned", "exited"} /\ srcExists /\ outState # "unavailable" =>
            /\ tally = <<converted_count, error_count>>
            /\ \A f \in EligibleFiles : st[f] = TerminalOf(f))
    /\ ((pc = "walk") ~>
            (pc = "returned" /\ \A f \in EligibleFiles : st[f] \in Terminal))

\* a run has returned with one file that failed to decode, one that failed
\* to be written and one that was written
C4_Witness ==
    /\ pc = "returned"
    /\ \E f \in tree : st[f] = "DecodeFailed"
    /\ \E f \in tree : st[f] = "WriteFailed"
    /\ \E f \in tree : st[f] = "Written"

\* C5: the exit code is 0 exactly when the source directory exists and the
\* run finished with no error; it is 1 when a file failed to decode or to
\* write, when the source directory does not exist and when setup failed
\* otherwise; the tally and the exit code are those the source tree and the
\* output root determine, whatever the verbose flag.
C5_ExitCode ==
    pc = "exited" =>
        /\ exitCode \in {0, 1}
        /\ (exitCode = 0 <=> srcExists /\ tally # NoTally /\ tally[2] = 0)
        /\ (~srcExists \/ outState = "unavailable" \/ FailedFiles # {}
                => exitCode = 1)
        /\ (srcExists /\ outState # "unavailable" /\ FailedFiles = {}
                => exitCode = 0)
        /\ (tally # NoTally =>
                tally = <<Cardinality(EligibleFiles) - Cardinality(FailedFiles),
                          Cardinality(FailedFiles)>>)

\* a verbose run with a failed file has exited
C5_Witness ==
    /\ pc = "exited"
    /\ verbose
    /\ exitCode = 1
    /\ tally # NoTally
    /\ tally[1] > 0 /\ tally[2] > 0

\* C6: without a source root, setup fails at once: the process exits with
\* no file discovered, no tally and the file system as it was, the output
\* root not created; with a source root, setup makes the output root and
\* its missing parents, also when the output root is there already.
C6_SourceNotFound ==
    /\ [][pc = "main" /\ ~srcExists =>
            /\ pc' = "exited"
            /\ exitCode' = 1
            /\ tally' = NoTally
            /\ UNCHANGED <<fsDirs, fsFiles, st, converted_count, error_count>>]_vars
    /\ [](~srcExists =>
            /\ pc \in {"main", "exited"}
            /\ tally = NoTally
            /\ fsFiles = {}
            /\ (outState # "exists" => OutRoot \notin fsDirs))
    /\ [][pc = "main" /\ srcExists /\ outState \in {"absent", "exists"} =>
            /\ pc' = "walk"
            /\ (Prefixes(OutRoot) \ {<<>>}) \subseteq fsDirs']_vars

\* the process has exited on a missing source root, the output root absent
C6_Witness ==
    /\ pc = "exited"
    /\ ~srcExists
    /\ outState = "absent"
    /\ exitCode = 1

\* for C6: setup has succeeded on an output root that was absent
C6_WitnessCreated ==
    /\ pc = "walk"
    /\ outState = "absent"
    /\ OutRoot \in fsDirs

\* C7: a second run on the unchanged source tree and the same output tree,
\* whatever the order of the listings in each run, leaves every artifact as
\* the first run left it and returns the same tally.
C7_RerunIdempotent ==
    pc = "returned" /\ runs > 1 => fsFiles = prevFiles /\ tally = prevTally

\* What holds of a second run: the same tally, the same artifact paths, and
\* the same bytes when no two eligible files share a mirrored path.
RerunSameTallyAndPaths ==
    pc = "returned" /\ runs > 1 =>
        /\ tally = prevTally
        /\ ArtifactPaths = {e.path : e \in prevFiles}
        /\ ((\A f, g \in EligibleFiles : f # g => OutputFile[f] # OutputFile[g])
                => fsFiles = prevFiles)

====
